---- MODULE Spec2Model ----
(***************************************************************************)
(* State-machine model of day1/mnist_tutorial.py: the linear tutorial      *)
(* script (data directory, download, seeding, catalog, split, training     *)
(* loop with best-checkpoint bookkeeping, evaluation, cleanup).            *)
(*                                                                         *)
(* Every program variable is a function of the run (1 or 2): Spec and      *)
(* SpecData step run 1 only; SpecDet steps two runs of the script side by  *)
(* side through the data-preparation stage.                                *)
(*                                                                         *)
(* Python sequences are 0-based: At and Slice translate the positions.     *)
(* Validation AUC values are held in percent (0.55 is 55, -1 is -100).     *)
(***************************************************************************)
EXTENDS Integers, Sequences, FiniteSets

\* ------------------------------------------------------------- bounds
\* Files per class directory in the trees SpecData starts from.
MaxPerClass == 7
\* Larger of the two class sizes in the trees SpecDet starts from.
MaxPerClassDet == 6
\* max_epochs ranges over 1..MaxEpochs (the script's literal, 4, included).
MaxEpochs == 5

\* ------------------------------------------------- program constants
\* set_determinism(seed=0)
DeterminismSeed == 0
\* np.random.randint(num_total, size=9)
PickSize == 9
\* DataLoader(..., batch_size=100, ...)
batch_size == 100
\* val_interval = 1
val_interval == 1
\* best_metric = -1 (in percent)
InitialBest == -100
\* best_metric_epoch = -1
InitialBestEpoch == -1
\* max_epochs = 4
ScriptMaxEpochs == 4

\* val_frac = 0.1 and test_frac = 0.1, as exact ratios.
val_frac == [num |-> 1, den |-> 10]
test_frac == [num |-> 1, den |-> 10]

Runs == {1, 2}

\* ---------------------------------------------------- Python helpers
\* seq[i] for a 0-based position i.
At(seq, i) == seq[i + 1]

\* seq[lo:hi] for 0 <= lo and hi <= len(seq) (empty when hi <= lo).
Slice(seq, lo, hi) == SubSeq(seq, lo + 1, hi)

Range(seq) == {seq[k] : k \in 1..Len(seq)}

\* int(frac * n): the double product frac*n truncated toward zero. For
\* frac = 0.1 and 0 <= n < 2000000 the truncated double product equals the
\* exact floor of n/10 (the double nearest 0.1 lies above 1/10, and the
\* rounded product never passes the next integer).
IntOfProduct(frac, n) == (frac.num * n) \div frac.den

\* np.arange(n)
arange(n) == [k \in 1..n |-> k - 1]

\* [v] * n
Repeat(v, n) == [k \in 1..n |-> v]

RECURSIVE Concat(_)
\* list.extend over a list of lists, in order
Concat(seqs) ==
    IF seqs = << >> THEN << >> ELSE Head(seqs) \o Concat(Tail(seqs))

\* ---------------------------------------------------- the file system
\* Entry names a data directory may hold, in alphabetical order.
Names == << "A", "B", "C" >>

NameSet == Range(Names)

\* Position of a name in alphabetical order (str comparison).
Rank(n) == CHOOSE i \in 1..Len(Names) : Names[i] = n

Absent == [kind |-> "absent", files |-> 0]
PlainFile == [kind |-> "file", files |-> 0]
Dir(k) == [kind |-> "dir", files |-> k]

\* A directory without entries.
EmptyTree == [n \in NameSet |-> Absent]

NoData == [present |-> FALSE, tree |-> EmptyTree]
NoFile == [present |-> FALSE, origin |-> "none", epoch |-> 0]
\* A best_metric_model.pth left in the configured directory by an earlier run.
StaleFile == [present |-> TRUE, origin |-> "earlier", epoch |-> 0]

\* os.path.isdir(os.path.join(data_dir, x))
isdir(tree, x) == tree[x].kind = "dir"

\* The orders os.listdir may return the entries of a directory in.
ListdirOrders(tree) ==
    LET present == {n \in NameSet : tree[n].kind # "absent"}
    IN  {o \in [1..Cardinality(present) -> present] :
            \A i, j \in 1..Cardinality(present) : i # j => o[i] # o[j]}

RECURSIVE SelectDirs(_, _)
\* (x for x in listing if os.path.isdir(...))
SelectDirs(tree, listing) ==
    IF listing = << >> THEN << >>
    ELSE IF isdir(tree, Head(listing))
         THEN << Head(listing) >> \o SelectDirs(tree, Tail(listing))
         ELSE SelectDirs(tree, Tail(listing))

RECURSIVE InsertSorted(_, _)
InsertSorted(x, s) ==
    IF s = << >> THEN << x >>
    ELSE IF Rank(x) <= Rank(Head(s)) THEN << x >> \o s
         ELSE << Head(s) >> \o InsertSorted(x, Tail(s))

RECURSIVE sorted(_)
\* sorted(...) of names
sorted(s) ==
    IF s = << >> THEN << >> ELSE InsertSorted(Head(s), sorted(Tail(s)))

\* [os.path.join(data_dir, c, x) for x in os.listdir(os.path.join(data_dir, c))]
\* A path is the pair of its class directory and its file.
ClassFiles(tree, c) == [x \in 1..tree[c].files |-> << c, x >>]

\* ------------------------------------------ the random number generator
\* np.random is MT19937. The low six bits of its first 128 outputs, for the
\* state np.random.seed(0) sets and for two states the OS entropy may have
\* set at import; six bits serve every bounded draw below 64.
MT19937_seed0 == << 44, 47, 53, 0, 3, 59, 3, 39, 9, 19, 21, 50, 36, 23, 6, 24,
    24, 12, 58, 1, 38, 39, 23, 46, 24, 17, 37, 25, 13, 8, 9, 20, 51, 16, 51, 5,
    62, 15, 47, 0, 18, 35, 24, 49, 51, 29, 19, 19, 14, 39, 32, 1, 9, 57, 63, 32,
    31, 10, 52, 23, 35, 62, 11, 50, 55, 28, 34, 0, 0, 36, 53, 5, 38, 40, 52, 17,
    15, 4, 41, 42, 58, 31, 56, 1, 1, 39, 41, 57, 35, 38, 55, 11, 46, 18, 27, 0,
    14, 35, 53, 12, 57, 42, 20, 11, 4, 6, 4, 47, 63, 52, 3, 12, 36, 52, 40, 14,
    15, 20, 35, 58, 23, 15, 13, 53, 21, 48, 49, 5 >>

MT19937_osA == << 37, 43, 12, 8, 63, 9, 11, 5, 15, 0, 16, 1, 12, 7, 45, 60, 6,
    25, 50, 20, 62, 37, 18, 20, 11, 60, 42, 28, 29, 14, 50, 4, 23, 23, 41, 49,
    55, 30, 32, 22, 13, 41, 9, 7, 63, 61, 22, 57, 1, 0, 60, 17, 8, 24, 13, 51,
    47, 42, 57, 8, 30, 7, 3, 6, 21, 49, 57, 3, 4, 24, 49, 43, 12, 26, 52, 16,
    45, 51, 41, 18, 15, 0, 4, 25, 47, 34, 23, 7, 26, 25, 40, 22, 9, 3, 39, 62,
    23, 61, 36, 27, 37, 57, 19, 38, 8, 32, 34, 10, 23, 15, 47, 23, 25, 7, 51,
    28, 10, 62, 46, 32, 24, 23, 55, 1, 49, 13, 3, 0 >>

MT19937_osB == << 40, 15, 45, 8, 22, 43, 18, 11, 40, 7, 34, 49, 31, 11, 21, 47,
    63, 31, 26, 20, 60, 52, 37, 39, 3, 38, 4, 42, 43, 51, 39, 38, 42, 33, 58,
    60, 63, 3, 5, 24, 4, 46, 6, 31, 19, 57, 31, 2, 16, 52, 46, 12, 50, 4, 26,
    63, 15, 49, 39, 63, 46, 8, 50, 45, 58, 15, 41, 45, 8, 55, 17, 22, 56, 58,
    53, 9, 57, 41, 46, 60, 26, 62, 19, 32, 43, 32, 26, 50, 8, 12, 62, 10, 40,
    34, 60, 9, 54, 37, 6, 22, 6, 19, 56, 18, 1, 4, 40, 17, 61, 6, 57, 61, 37,
    33, 18, 20, 26, 23, 22, 43, 52, 37, 10, 8, 26, 35, 27, 32 >>

EntropyStreams == {"osA", "osB"}

StreamOf(s) ==
    CASE s = "seed0" -> MT19937_seed0
      [] s = "osA" -> MT19937_osA
      [] s = "osB" -> MT19937_osB

\* np.random.seed(seed): the generator restarts on the seed's stream.
np_random_seed(seed) ==
    [stream |-> CASE seed = 0 -> "seed0", pos |-> 0]

\* One raw output, and the generator after it.
next_uint32(st) ==
    [val |-> StreamOf(st.stream)[st.pos + 1],
     st |-> [st EXCEPT !.pos = st.pos + 1]]

RECURSIVE gen_mask(_, _)
\* Smallest 2^k - 1 that is >= max (call with m = 0).
gen_mask(max, m) == IF m >= max THEN m ELSE gen_mask(max, 2 * m + 1)

RECURSIVE bounded_masked(_, _, _)
\* while ((val = next_uint32() & mask) > max);
bounded_masked(st, max, mask) ==
    LET u == next_uint32(st)
        v == u.val % (mask + 1)
    IN  IF v > max THEN bounded_masked(u.st, max, mask)
        ELSE [val |-> v, st |-> u.st]

\* A draw in 0..max by masked rejection; no output is used when max = 0.
random_interval(st, max) ==
    IF max = 0 THEN [val |-> 0, st |-> st]
    ELSE bounded_masked(st, max, gen_mask(max, 0))

RECURSIVE randint(_, _, _)
\* np.random.randint(high, size=size): the draws and the generator after them.
randint(st, high, size) ==
    IF size = 0 THEN [vals |-> << >>, st |-> st]
    ELSE LET d == random_interval(st, high - 1)
             rest == randint(d.st, high, size - 1)
         IN  [vals |-> << d.val >> \o rest.vals, st |-> rest.st]

RECURSIVE shuffle_raw(_, _, _)
\* for i in reversed(range(1, n)): j = random_interval(i); x[i], x[j] = x[j], x[i]
shuffle_raw(x, st, i) ==
    IF i < 1 THEN [x |-> x, st |-> st]
    ELSE LET d == random_interval(st, i)
             j == d.val
         IN  shuffle_raw([x EXCEPT ![i + 1] = x[j + 1], ![j + 1] = x[i + 1]],
                         d.st, i - 1)

\* Mutant: the shuffle is dropped and the indices stay in catalog order.
shuffle_skipped(x, st) == [x |-> x, st |-> st]

\* np.random.shuffle(x)
np_random_shuffle(x, st) == shuffle_raw(x, st, Len(x) - 1)

\* ---------------------------------------------------------- the state
VARIABLES
    pc,                 \* the cell of the script each run is at
    archive,            \* the tree the MedNIST archive extracts to
    directory,          \* os.environ.get("MONAI_DATA_DIRECTORY")
    root_dir,
    disk,               \* root_dir on disk: the data tree, the checkpoint file
    rng,                \* the global np.random generator
    class_names, num_class, image_files, num_each,
    image_files_list, image_class, num_total,
    length, indices, test_split, val_split,
    test_indices, val_indices, train_indices,
    train_x, train_y, val_x, val_y, test_x, test_y,
    max_epochs, model,  \* model: the parameters in memory
    best_metric, best_metric_epoch, epoch_loss_values, metric_values,
    epoch, epoch_loss, step

envVars == << archive, directory, root_dir >>

catalogVars == << class_names, num_class, image_files, num_each,
                  image_files_list, image_class, num_total >>

splitVars == << length, indices, test_split, val_split,
                test_indices, val_indices, train_indices,
                train_x, train_y, val_x, val_y, test_x, test_y >>

loopVars == << max_epochs, model, best_metric, best_metric_epoch,
               epoch_loss_values, metric_values, epoch, epoch_loss, step >>

vars == << pc, envVars, disk, rng, catalogVars, splitVars, loopVars >>

\* f with its value for run r replaced.
Set(f, r, v) == [f EXCEPT ![r] = v]

\* The parameters the network holds after `e` epochs of this run's training.
Trained(e) == [present |-> TRUE, origin |-> "run", epoch |-> e]

\* ------------------------------------------------------ initial states
\* The 2-class dataset with 20 images per class.
ToyDataset ==
    [n \in NameSet |-> IF n \in {"A", "B"} THEN Dir(20) ELSE Absent]

\* Every tree of at most MaxPerClass files per class directory.
DataTrees ==
    [NameSet -> {Absent, PlainFile} \cup {Dir(k) : k \in 0..MaxPerClass}]

\* Trees of three class directories of MaxPerClassDet - 1 or MaxPerClassDet files.
DetTrees ==
    [NameSet -> {Dir(k) : k \in (MaxPerClassDet - 1)..MaxPerClassDet}]

DetArchive ==
    [n \in NameSet |-> IF n = "B" THEN Dir(MaxPerClassDet - 1) ELSE Dir(MaxPerClassDet)]

\* The states a run may start in: no directory configured (mkdtemp will make
\* a fresh one), or a configured directory that may hold an extracted
\* dataset and a checkpoint file an earlier run left.
StartsOf(a, trees, ckpts) ==
    {[directory |-> "None", disk |-> [root |-> FALSE, data |-> NoData, ckpt |-> NoFile]]}
    \cup
    {[directory |-> "configured", disk |-> [root |-> TRUE, data |-> d, ckpt |-> c]] :
        d \in {NoData} \cup {[present |-> TRUE, tree |-> t] : t \in trees \cup {a}},
        c \in ckpts}

\* The runs of `active` start anywhere StartsOf allows; the others stand still.
InitWith(active, archives, trees, ckpts) ==
    \E a \in archives :
    \E st \in [active -> StartsOf(a, trees, ckpts)] :
    \E en \in [active -> EntropyStreams] :
        /\ archive = a
        /\ pc = [r \in Runs |-> IF r \in active THEN "start" ELSE "idle"]
        /\ directory = [r \in Runs |-> IF r \in active THEN st[r].directory ELSE "None"]
        /\ root_dir = [r \in Runs |-> "unset"]
        /\ disk = [r \in Runs |-> IF r \in active THEN st[r].disk
                                  ELSE [root |-> FALSE, data |-> NoData, ckpt |-> NoFile]]
        /\ rng = [r \in Runs |-> [stream |-> IF r \in active THEN en[r] ELSE "osA",
                                  pos |-> 0]]
        /\ class_names = [r \in Runs |-> << >>]
        /\ num_class = [r \in Runs |-> 0]
        /\ image_files = [r \in Runs |-> << >>]
        /\ num_each = [r \in Runs |-> << >>]
        /\ image_files_list = [r \in Runs |-> << >>]
        /\ image_class = [r \in Runs |-> << >>]
        /\ num_total = [r \in Runs |-> 0]
        /\ length = [r \in Runs |-> 0]
        /\ indices = [r \in Runs |-> << >>]
        /\ test_split = [r \in Runs |-> 0]
        /\ val_split = [r \in Runs |-> 0]
        /\ test_indices = [r \in Runs |-> << >>]
        /\ val_indices = [r \in Runs |-> << >>]
        /\ train_indices = [r \in Runs |-> << >>]
        /\ train_x = [r \in Runs |-> << >>]
        /\ train_y = [r \in Runs |-> << >>]
        /\ val_x = [r \in Runs |-> << >>]
        /\ val_y = [r \in Runs |-> << >>]
        /\ test_x = [r \in Runs |-> << >>]
        /\ test_y = [r \in Runs |-> << >>]
        /\ max_epochs = [r \in Runs |-> 0]
        /\ model = [r \in Runs |-> NoFile]
        /\ best_metric = [r \in Runs |-> 0]
        /\ best_metric_epoch = [r \in Runs |-> 0]
        /\ epoch_loss_values = [r \in Runs |-> << >>]
        /\ metric_values = [r \in Runs |-> << >>]
        /\ epoch = [r \in Runs |-> -1]
        /\ epoch_loss = [r \in Runs |-> 0]
        /\ step = [r \in Runs |-> 0]

Init == InitWith({1}, {ToyDataset}, {}, {NoFile, StaleFile})

InitData == \E a \in DataTrees : InitWith({1}, {a}, {}, {NoFile, StaleFile})

InitDet == InitWith(Runs, {DetArchive}, DetTrees, {NoFile})

\* ---------------------------------------------- data preparation stage
\* directory = os.environ.get(...); root_dir = tempfile.mkdtemp() if
\* directory is None else directory
SetupDataDirectory(r) ==
    /\ pc[r] = "start"
    /\ IF directory[r] = "None"
       THEN /\ root_dir' = Set(root_dir, r, "tmp")
            /\ disk' = Set(disk, r, [root |-> TRUE, data |-> NoData, ckpt |-> NoFile])
       ELSE /\ root_dir' = Set(root_dir, r, directory[r])
            /\ disk' = disk
    /\ pc' = Set(pc, r, "download")
    /\ UNCHANGED << archive, directory, rng, catalogVars, splitVars, loopVars >>

\* if not os.path.exists(data_dir): download_and_extract(...)
\* A failed download or checksum raises and ends the run.
DownloadDataset(r) ==
    /\ pc[r] = "download"
    /\ IF disk[r].data.present
       THEN /\ disk' = disk
            /\ pc' = Set(pc, r, "seed")
       ELSE \/ /\ disk' = Set(disk, r, [disk[r] EXCEPT
                                !.data = [present |-> TRUE, tree |-> archive]])
               /\ pc' = Set(pc, r, "seed")
            \/ /\ disk' = disk
               /\ pc' = Set(pc, r, "crashed")
    /\ UNCHANGED << envVars, rng, catalogVars, splitVars, loopVars >>

\* Mutant: the generator is left on the state the OS entropy gave it.
set_determinism_unseeded(r) ==
    /\ pc[r] = "seed"
    /\ pc' = Set(pc, r, "catalog")
    /\ UNCHANGED << envVars, disk, rng, catalogVars, splitVars, loopVars >>

\* set_determinism(seed=0), which calls np.random.seed(seed)
set_determinism(r) ==
    /\ pc[r] = "seed"
    /\ rng' = Set(rng, r, np_random_seed(DeterminismSeed))
    /\ pc' = Set(pc, r, "catalog")
    /\ UNCHANGED << envVars, disk, catalogVars, splitVars, loopVars >>

\* Mutant: the sort is dropped and the listing order kept.
ClassNamesUnsorted(tree, listing) == SelectDirs(tree, listing)

\* class_names = sorted(x for x in os.listdir(data_dir) if os.path.isdir(...))
ClassNamesOf(tree, listing) == sorted(SelectDirs(tree, listing))

\* image_files: one list of paths per class, in class_names order
ImageFilesOf(tree, names) == [i \in 1..Len(names) |-> ClassFiles(tree, names[i])]

\* image_class: the 0-based class index, num_each[i] times, class after class
ImageClassOf(each) == Concat([i \in 1..Len(each) |-> Repeat(i - 1, each[i])])

\* The cell reading the image file names; PIL.Image.open(image_files_list[0])
\* raises IndexError when the catalog is empty.
ReadImageFilenames(r) ==
    /\ pc[r] = "catalog"
    /\ \E listing \in ListdirOrders(disk[r].data.tree) :
        LET tree == disk[r].data.tree
            names == ClassNamesOf(tree, listing)
            files == ImageFilesOf(tree, names)
            each == [i \in 1..Len(names) |-> Len(files[i])]
            labels == ImageClassOf(each)
        IN  /\ class_names' = Set(class_names, r, names)
            /\ num_class' = Set(num_class, r, Len(names))
            /\ image_files' = Set(image_files, r, files)
            /\ num_each' = Set(num_each, r, each)
            /\ image_files_list' = Set(image_files_list, r, Concat(files))
            /\ image_class' = Set(image_class, r, labels)
            /\ num_total' = Set(num_total, r, Len(labels))
            /\ pc' = Set(pc, r, IF Len(labels) = 0 THEN "crashed" ELSE "pick")
    /\ UNCHANGED << envVars, disk, rng, splitVars, loopVars >>

\* for i, k in enumerate(np.random.randint(num_total, size=9)): show image k
PickImages(r) ==
    /\ pc[r] = "pick"
    /\ rng' = Set(rng, r, randint(rng[r], num_total[r], PickSize).st)
    /\ pc' = Set(pc, r, "shuffle")
    /\ UNCHANGED << envVars, disk, catalogVars, splitVars, loopVars >>

\* length = len(image_files_list); indices = np.arange(length);
\* np.random.shuffle(indices)
ShuffleIndices(r) ==
    /\ pc[r] = "shuffle"
    /\ LET n == Len(image_files_list[r])
           sh == np_random_shuffle(arange(n), rng[r])
       IN  /\ length' = Set(length, r, n)
           /\ indices' = Set(indices, r, sh.x)
           /\ rng' = Set(rng, r, sh.st)
    /\ pc' = Set(pc, r, "split")
    /\ UNCHANGED << envVars, disk, catalogVars, test_split, val_split,
                    test_indices, val_indices, train_indices,
                    train_x, train_y, val_x, val_y, test_x, test_y, loopVars >>

\* test_split = int(test_frac * length)
TestSplitOf(n) == IntOfProduct(test_frac, n)

\* Mutant: val_split without the test_split offset.
ValSplitNoOffset(n) == IntOfProduct(val_frac, n)

\* val_split = int(val_frac * length) + test_split
ValSplitOf(n) == IntOfProduct(val_frac, n) + TestSplitOf(n)

\* indices[:test_split]
TestIndicesOf(ix, ts, vs) == Slice(ix, 0, ts)

\* indices[test_split:val_split]
ValIndicesOf(ix, ts, vs) == Slice(ix, ts, vs)

\* Mutant: the training slice starts at test_split.
TrainFromTestSplit(ix, ts, vs) == Slice(ix, ts, Len(ix))

\* indices[val_split:]
TrainIndicesOf(ix, ts, vs) == Slice(ix, vs, Len(ix))

\* [lst[i] for i in ix]
Gather(lst, ix) == [k \in 1..Len(ix) |-> At(lst, ix[k])]

\* The split cell: the three index slices and the lists gathered from them.
SplitIndices(r) ==
    /\ pc[r] = "split"
    /\ LET ts == TestSplitOf(length[r])
           vs == ValSplitOf(length[r])
           te == TestIndicesOf(indices[r], ts, vs)
           va == ValIndicesOf(indices[r], ts, vs)
           tr == TrainIndicesOf(indices[r], ts, vs)
       IN  /\ test_split' = Set(test_split, r, ts)
           /\ val_split' = Set(val_split, r, vs)
           /\ test_indices' = Set(test_indices, r, te)
           /\ val_indices' = Set(val_indices, r, va)
           /\ train_indices' = Set(train_indices, r, tr)
           /\ train_x' = Set(train_x, r, Gather(image_files_list[r], tr))
           /\ train_y' = Set(train_y, r, Gather(image_class[r], tr))
           /\ val_x' = Set(val_x, r, Gather(image_files_list[r], va))
           /\ val_y' = Set(val_y, r, Gather(image_class[r], va))
           /\ test_x' = Set(test_x, r, Gather(image_files_list[r], te))
           /\ test_y' = Set(test_y, r, Gather(image_class[r], te))
    /\ pc' = Set(pc, r, "network")
    /\ UNCHANGED << envVars, disk, rng, catalogVars, length, indices, loopVars >>

DataStep(r) ==
    \/ SetupDataDirectory(r)
    \/ DownloadDataset(r)
    \/ set_determinism(r)
    \/ ReadImageFilenames(r)
    \/ PickImages(r)
    \/ ShuffleIndices(r)
    \/ SplitIndices(r)

\* ------------------------------------------------------ training stage
\* The validation AUC values a pass may report, in percent.
AucValues == {0, 50, 55, 60, 70, 100}

\* The loss a batch may report.
LossValues == {1}

\* The batches train_loader yields for n samples (drop_last is off).
NumBatches(n) == (n + batch_size - 1) \div batch_size

RECURSIVE SumSeq(_)
SumSeq(s) == IF s = << >> THEN 0 ELSE Head(s) + SumSeq(Tail(s))

\* The cells from the transforms to the loop's initialisation: the network
\* is created, max_epochs is set (the script's literal is 4; any value of
\* 1..MaxEpochs is taken here), the best metric and the lists are reset.
DefineNetwork(r) ==
    /\ pc[r] = "network"
    /\ \E m \in 1..MaxEpochs : max_epochs' = Set(max_epochs, r, m)
    /\ model' = Set(model, r, Trained(0))
    /\ best_metric' = Set(best_metric, r, InitialBest)
    /\ best_metric_epoch' = Set(best_metric_epoch, r, InitialBestEpoch)
    /\ epoch_loss_values' = Set(epoch_loss_values, r, << >>)
    /\ metric_values' = Set(metric_values, r, << >>)
    /\ pc' = Set(pc, r, "loop")
    /\ UNCHANGED << envVars, disk, rng, catalogVars, splitVars,
                    epoch, epoch_loss, step >>

\* Mutant: the loss accumulator is carried over from the epoch before.
ResetStepOnly(r) ==
    /\ epoch_loss' = epoch_loss
    /\ step' = Set(step, r, 0)

\* epoch_loss = 0; step = 0 at the head of an epoch
ResetAccumulators(r) ==
    /\ epoch_loss' = Set(epoch_loss, r, 0)
    /\ step' = Set(step, r, 0)

\* for epoch in range(max_epochs): ... model.train(); epoch_loss = 0; step = 0
BeginEpoch(r) ==
    /\ pc[r] = "loop"
    /\ epoch[r] + 1 < max_epochs[r]
    /\ epoch' = Set(epoch, r, epoch[r] + 1)
    /\ ResetAccumulators(r)
    /\ pc' = Set(pc, r, "train")
    /\ UNCHANGED << envVars, disk, rng, catalogVars, splitVars, max_epochs,
                    model, best_metric, best_metric_epoch,
                    epoch_loss_values, metric_values >>

\* for batch_data in train_loader: step += 1; ...; epoch_loss += loss.item()
\* then epoch_loss /= step; epoch_loss_values.append(epoch_loss).
\* The quotient is exact for the single batch a catalog of at most 100
\* training samples gives; step = 0 raises ZeroDivisionError.
TrainEpoch(r) ==
    /\ pc[r] = "train"
    /\ LET nb == NumBatches(Len(train_x[r]))
       IN  \E losses \in [1..nb -> LossValues] :
            /\ step' = Set(step, r, step[r] + nb)
            /\ IF step[r] + nb = 0
               THEN /\ pc' = Set(pc, r, "crashed")
                    /\ UNCHANGED << epoch_loss, epoch_loss_values, model >>
               ELSE LET avg == (epoch_loss[r] + SumSeq(losses)) \div (step[r] + nb)
                    IN  /\ epoch_loss' = Set(epoch_loss, r, avg)
                        /\ epoch_loss_values' =
                               Set(epoch_loss_values, r, Append(epoch_loss_values[r], avg))
                        /\ model' = Set(model, r, Trained(model[r].epoch + 1))
                        /\ pc' = Set(pc, r, "validate")
    /\ UNCHANGED << envVars, disk, rng, catalogVars, splitVars, max_epochs,
                    best_metric, best_metric_epoch, metric_values, epoch >>

\* Mutant: a tie counts as a new best.
IsNewBestOrTie(result, best) == result >= best

\* if result > best_metric
IsNewBest(result, best) == result > best

\* Mutant: the 0-based loop index is recorded.
BestEpochZeroBased(e) == e

\* best_metric_epoch = epoch + 1
BestEpochOf(e) == e + 1

\* if (epoch + 1) % val_interval == 0: the validation pass, its AUC appended
\* to metric_values, and the best-metric bookkeeping with torch.save on a new
\* best. len(acc_value) = 0 raises ZeroDivisionError on an empty validation set.
Validate(r) ==
    /\ pc[r] = "validate"
    /\ IF (epoch[r] + 1) % val_interval # 0
       THEN /\ pc' = Set(pc, r, "loop")
            /\ UNCHANGED << disk, metric_values, best_metric, best_metric_epoch >>
       ELSE IF Len(val_x[r]) = 0
       THEN /\ pc' = Set(pc, r, "crashed")
            /\ UNCHANGED << disk, metric_values, best_metric, best_metric_epoch >>
       ELSE \E result \in AucValues :
            /\ metric_values' = Set(metric_values, r, Append(metric_values[r], result))
            /\ IF IsNewBest(result, best_metric[r])
               THEN /\ best_metric' = Set(best_metric, r, result)
                    /\ best_metric_epoch' = Set(best_metric_epoch, r, BestEpochOf(epoch[r]))
                    /\ disk' = Set(disk, r, [disk[r] EXCEPT !.ckpt = model[r]])
               ELSE UNCHANGED << disk, best_metric, best_metric_epoch >>
            /\ pc' = Set(pc, r, "loop")
    /\ UNCHANGED << envVars, rng, catalogVars, splitVars, max_epochs, model,
                    epoch_loss_values, epoch, epoch_loss, step >>

\* range(max_epochs) is exhausted: the summary is printed and the curves plotted.
ExitLoop(r) ==
    /\ pc[r] = "loop"
    /\ epoch[r] + 1 >= max_epochs[r]
    /\ pc' = Set(pc, r, "evaluate")
    /\ UNCHANGED << envVars, disk, rng, catalogVars, splitVars, loopVars >>

\* ---------------------------------------------- evaluation and cleanup
\* Mutant: the checkpoint is not loaded; the last epoch's parameters stay.
load_skipped(current, file) == current

\* The parameters in memory after model.load_state_dict(torch.load(file)).
load_state_dict(current, file) == file

\* model.load_state_dict(torch.load(os.path.join(root_dir,
\* "best_metric_model.pth"))), then the test pass and the report.
\* torch.load raises FileNotFoundError when the file is missing.
Evaluate(r) ==
    /\ pc[r] = "evaluate"
    /\ IF disk[r].ckpt.present
       THEN /\ model' = Set(model, r, load_state_dict(model[r], disk[r].ckpt))
            /\ pc' = Set(pc, r, "cleanup")
       ELSE /\ model' = model
            /\ pc' = Set(pc, r, "crashed")
    /\ UNCHANGED << envVars, disk, rng, catalogVars, splitVars, max_epochs,
                    best_metric, best_metric_epoch, epoch_loss_values,
                    metric_values, epoch, epoch_loss, step >>

\* Mutant: the root directory is removed whatever was configured.
RemovesRootAlways(dir) == TRUE

\* if directory is None
RemovesRoot(dir) == dir = "None"

\* if directory is None: shutil.rmtree(root_dir)
Cleanup(r) ==
    /\ pc[r] = "cleanup"
    /\ IF RemovesRoot(directory[r])
       THEN disk' = Set(disk, r, [root |-> FALSE, data |-> NoData, ckpt |-> NoFile])
       ELSE disk' = disk
    /\ pc' = Set(pc, r, "done")
    /\ UNCHANGED << envVars, rng, catalogVars, splitVars, loopVars >>

TrainStep(r) ==
    \/ DefineNetwork(r)
    \/ BeginEpoch(r)
    \/ TrainEpoch(r)
    \/ Validate(r)
    \/ ExitLoop(r)
    \/ Evaluate(r)
    \/ Cleanup(r)

Next == DataStep(1) \/ TrainStep(1)

Spec == Init /\ [][Next]_vars

NextData == DataStep(1)

SpecData == InitData /\ [][NextData]_vars

NextDet == \E r \in Runs : DataStep(r)

SpecDet == InitDet /\ [][NextDet]_vars

\* The script is one sequential thread: the next cell of the training and
\* evaluation stage runs whenever there is one.
SpecFair == Spec /\ WF_vars(TrainStep(1))

\* ------------------------------------------------------------- claims
AfterCatalog ==
    {"pick", "shuffle", "split", "network", "loop", "train", "validate",
     "evaluate", "cleanup", "done"}

AfterSplit ==
    {"network", "loop", "train", "validate", "evaluate", "cleanup", "done"}

AfterLoop == {"evaluate", "cleanup", "done"}

\* The catalog of run r has been built (a run that crashed on the empty
\* catalog has built it too; one that crashed in the download has no data).
CatalogBuilt(r) ==
    \/ pc[r] \in AfterCatalog
    \/ pc[r] = "crashed" /\ disk[r].data.present /\ root_dir[r] # "unset"

SplitDone(r) == pc[r] \in AfterSplit

\* Number of positions of y holding class c.
Count(y, c) == Cardinality({k \in 1..Len(y) : y[k] = c})

NoRepeats(s) == Cardinality(Range(s)) = Len(s)

MaxOf(s) == CHOOSE v \in Range(s) : \A w \in Range(s) : w <= v

FirstAt(s, v) == CHOOSE i \in 1..Len(s) : s[i] = v /\ \A j \in 1..(i - 1) : s[j] # v

\* C1: once the split is made, the test, validation and train index sets are
\* pairwise disjoint, no index repeats, and together they are exactly
\* 0..num_total-1.
C1_Partition ==
    SplitDone(1) =>
        LET te == test_indices[1]
            va == val_indices[1]
            tr == train_indices[1]
        IN  /\ Range(te) \cap Range(va) = {}
            /\ Range(te) \cap Range(tr) = {}
            /\ Range(va) \cap Range(tr) = {}
            /\ NoRepeats(te) /\ NoRepeats(va) /\ NoRepeats(tr)
            /\ Range(te) \cup Range(va) \cup Range(tr) = 0..(num_total[1] - 1)

\* A split of at least 20 samples, whose three subsets are all non-empty.
C1_Witness ==
    /\ SplitDone(1)
    /\ num_total[1] >= 20
    /\ test_indices[1] # << >> /\ val_indices[1] # << >> /\ train_indices[1] # << >>

\* The observations of the checkpoint scenario and the best epoch after each.
ExampleAuc == << 50, 60, 55, 60, 70 >>
ExampleBestEpochs == << 1, 2, 2, 2, 5 >>
ExampleSaves == {1, 2, 5}

\* A validation pass of run 1 appended its AUC in this step.
Observed == Len(metric_values'[1]) = Len(metric_values[1]) + 1

\* The checkpoint file of run 1 was written in this step.
Written == disk'[1].ckpt.present /\ disk'[1].ckpt # disk[1].ckpt

C2_Step ==
    Observed =>
        LET k == Len(metric_values'[1])
            v == metric_values'[1][k]
            strict == v > InitialBest /\ \A i \in 1..(k - 1) : v > metric_values[1][i]
        IN  /\ Written <=> strict
            /\ Written => disk'[1].ckpt = Trained(k)
            /\ (k <= Len(ExampleAuc) /\ metric_values'[1] = SubSeq(ExampleAuc, 1, k)) =>
                   /\ best_metric_epoch'[1] = ExampleBestEpochs[k]
                   /\ Written <=> k \in ExampleSaves

C3_State ==
    (pc[1] \in {"loop", "train", "validate"} \cup AfterLoop /\ metric_values[1] # << >>) =>
        /\ best_metric[1] = MaxOf(metric_values[1])
        /\ best_metric_epoch[1] = FirstAt(metric_values[1], best_metric[1])

C3_Step ==
    (pc[1] \in {"loop", "train", "validate"}) => best_metric'[1] >= best_metric[1]

\* C3: after every validation pass best_metric is the largest AUC observed so
\* far and best_metric_epoch the 1-based index of the earliest epoch that
\* reached it; best_metric never decreases from one step to the next.
C3_BestTracksMaximum == [] C3_State /\ [][C3_Step]_vars

\* The maximum was reached twice and the earlier epoch is kept.
C3_Witness ==
    /\ pc[1] = "loop"
    /\ Len(metric_values[1]) >= 3
    /\ metric_values[1][1] = 60 /\ metric_values[1][3] = 60
    /\ best_metric[1] = 60 /\ best_metric_epoch[1] = 1

\* C4: two runs that have made their split over the same number of samples
\* hold the same test, validation and train index sets.
C4_Deterministic ==
    (SplitDone(1) /\ SplitDone(2) /\ num_total[1] = num_total[2]) =>
        /\ Range(test_indices[1]) = Range(test_indices[2])
        /\ Range(val_indices[1]) = Range(val_indices[2])
        /\ Range(train_indices[1]) = Range(train_indices[2])

\* Two runs started on different entropy, directories and class layouts
\* reached the split with the same sample count.
C4_Witness ==
    /\ SplitDone(1) /\ SplitDone(2)
    /\ num_total[1] = num_total[2]
    /\ num_each[1] # num_each[2]
    /\ directory[1] # directory[2]
    /\ test_indices[1] # << >>

\* C5 as stated: on the 2-class dataset of 20 images per class every class
\* gives 16 samples to train, 2 to validation and 2 to test.
C5_PerClassCounts ==
    SplitDone(1) =>
        \A c \in {0, 1} :
            /\ Count(train_y[1], c) = 16
            /\ Count(val_y[1], c) = 2
            /\ Count(test_y[1], c) = 2

\* C5 amended: on that dataset the split gives 32 train, 4 validation and 4
\* test samples; the shuffle does not look at the class, and under seed 0
\* the classes share them 17/15 (train), 1/3 (validation) and 2/2 (test).
C5_TotalCounts ==
    SplitDone(1) =>
        /\ Len(train_y[1]) = 32 /\ Len(val_y[1]) = 4 /\ Len(test_y[1]) = 4
        /\ Count(train_y[1], 0) = 17 /\ Count(train_y[1], 1) = 15
        /\ Count(val_y[1], 0) = 1 /\ Count(val_y[1], 1) = 3
        /\ Count(test_y[1], 0) = 2 /\ Count(test_y[1], 1) = 2

\* The split of the 2 x 20 dataset has been made.
C5_Witness ==
    /\ pc[1] = "network"
    /\ class_names[1] = << "A", "B" >>
    /\ num_each[1] = << 20, 20 >>
    /\ Len(test_y[1]) = 4

\* C6: the class names are the directories of the tree in sorted order, the
\* sample count is the sum of the class sizes, files and labels are equally
\* long, and each label is the 0-based position, in the sorted class names,
\* of the directory holding the file; classes A and B of 3 and 5 images give
\* the names A, B and 8 samples.
C6_Catalog ==
    CatalogBuilt(1) =>
        LET tree == disk[1].data.tree
            names == class_names[1]
        IN  /\ Range(names) = {n \in NameSet : tree[n].kind = "dir"}
            /\ \A i, j \in 1..Len(names) : i < j => Rank(names[i]) < Rank(names[j])
            /\ num_total[1] = SumSeq([i \in 1..Len(names) |-> tree[names[i]].files])
            /\ Len(image_files_list[1]) = num_total[1]
            /\ Len(image_class[1]) = num_total[1]
            /\ \A k \in 1..num_total[1] :
                   At(names, image_class[1][k]) = image_files_list[1][k][1]
            /\ (tree["A"] = Dir(3) /\ tree["B"] = Dir(5) /\ tree["C"].kind # "dir") =>
                   names = << "A", "B" >> /\ num_total[1] = 8

\* The catalog of classes A (3 images) and B (5 images), beside a plain file.
C6_Witness ==
    /\ CatalogBuilt(1)
    /\ disk[1].data.tree = [n \in NameSet |->
           CASE n = "A" -> Dir(3) [] n = "B" -> Dir(5) [] OTHER -> PlainFile]
    /\ num_total[1] = 8

\* C7: the root directory exists throughout the run; at the end it is gone
\* exactly when no directory was configured, and a configured directory
\* still holds the dataset and the checkpoint the run wrote.
C7_Cleanup ==
    /\ pc[1] \in AfterCatalog \ {"done"} => disk[1].root
    /\ pc[1] = "done" =>
        /\ directory[1] = "None" <=> ~disk[1].root
        /\ directory[1] # "None" =>
              /\ disk[1].data.present
              /\ disk[1].ckpt = Trained(best_metric_epoch[1])

\* A run without a configured directory has ended and removed its root.
C7_Witness ==
    /\ pc[1] = "done"
    /\ directory[1] = "None"
    /\ ~disk[1].root /\ ~disk[1].ckpt.present

\* C8: test_indices are the first length div 10 entries of the shuffled
\* indices, val_indices the next length div 10 and train_indices the rest;
\* below 10 samples the test and validation subsets are empty.
C8_Slices ==
    SplitDone(1) =>
        LET n == num_total[1]
            k == n \div 10
        IN  /\ Len(indices[1]) = n
            /\ test_indices[1] = SubSeq(indices[1], 1, k)
            /\ val_indices[1] = SubSeq(indices[1], k + 1, 2 * k)
            /\ train_indices[1] = SubSeq(indices[1], 2 * k + 1, n)
            /\ Len(test_indices[1]) + Len(val_indices[1]) + Len(train_indices[1]) = n
            /\ Len(train_indices[1]) = n - 2 * k
            /\ n < 10 => test_indices[1] = << >> /\ val_indices[1] = << >>

\* A split of 10 to 19 samples: one test index, one validation index.
C8_Witness ==
    /\ SplitDone(1)
    /\ num_total[1] \in 10..19
    /\ Len(test_indices[1]) = 1 /\ Len(val_indices[1]) = 1
    /\ val_indices[1] = << indices[1][2] >>

C9_State ==
    /\ pc[1] \in AfterLoop =>
          /\ Len(epoch_loss_values[1]) = max_epochs[1]
          /\ Len(metric_values[1]) = max_epochs[1]
          /\ model[1].epoch <= max_epochs[1]
    /\ pc[1] = "loop" =>
          /\ Len(epoch_loss_values[1]) = epoch[1] + 1
          /\ Len(metric_values[1]) = epoch[1] + 1
    /\ pc[1] = "train" => epoch_loss[1] = 0 /\ step[1] = 0
    /\ pc[1] = "validate" => Len(epoch_loss_values[1]) = Len(metric_values[1]) + 1

\* C9: whatever AUC values are observed, the loop, once entered, is left,
\* and then exactly max_epochs losses and max_epochs AUC values have been
\* recorded, one validation after each epoch; every epoch starts with the
\* loss accumulator and the step counter at zero.
C9_FixedEpochs == [] C9_State /\ (pc[1] = "loop" ~> pc[1] = "evaluate")

\* The loop ran the script's 4 epochs although the first AUC was already 1.0.
C9_Witness ==
    /\ pc[1] = "evaluate"
    /\ max_epochs[1] = ScriptMaxEpochs
    /\ metric_values[1][1] = 100
    /\ Len(epoch_loss_values[1]) = ScriptMaxEpochs

C10_State ==
    /\ pc[1] = "evaluate" =>
          /\ best_metric_epoch[1] >= 1
          /\ disk[1].ckpt = Trained(best_metric_epoch[1])
    /\ pc[1] \in {"cleanup", "done"} => model[1] = Trained(best_metric_epoch[1])
    /\ pc[1] = "crashed" => metric_values[1] = << >>

C10_Step ==
    /\ Written => pc[1] = "validate" /\ pc'[1] = "loop"
    /\ pc[1] \in {"cleanup", "done"} => model'[1] = model[1]

\* C10: when the evaluation stage is reached the checkpoint file has been
\* written by this run and holds the parameters of epoch best_metric_epoch;
\* the file is written in validation steps of the training loop only, the
\* parameters in memory after the load are those of that epoch, and they do
\* not change after the one load.
C10_WriteBeforeRead == [] C10_State /\ [][C10_Step]_vars

\* The evaluation stage loaded an epoch before the last, over a file an
\* earlier run may have left in the configured directory.
C10_Witness ==
    /\ pc[1] = "cleanup"
    /\ directory[1] = "configured"
    /\ model[1] = Trained(best_metric_epoch[1])
    /\ best_metric_epoch[1] < max_epochs[1]

====
